---- MODULE Spec2Model ----
(***************************************************************************)
(* central-api: the release-note service (pkg/ReleaseNoteService.go), the  *)
(* webhook secret validator (pkg/WebhookSecretValidator.go) and the REST   *)
(* handlers (api/RestHandler.go).                                          *)
(*                                                                         *)
(* Every request is a process whose steps are the handler's accesses to    *)
(* shared state: the process-wide releaseCache map, the Release objects it *)
(* points to, the local marker file, the blob object, the release_notes    *)
(* table and the service mutex.                                            *)
(*                                                                         *)
(* Strings are sequences of tokens; a tag name is a number (0 is "").      *)
(***************************************************************************)
EXTENDS Integers, Sequences, FiniteSets, TLC

VARIABLES
    cfg,            \* blobConfig.CloudConfigured, GitHubConfig.GitHubSecretValidator
    github,         \* the release feed of the external source, newest first
    heap,           \* the *common.Release objects the cache points to
    releaseCache,   \* var releaseCache map[string][]*common.Release
    tmpFile,        \* content of /tmp/latest.txt
    blob,           \* content of the blob object latest.txt
    rows,           \* table release_notes (committed)
    tx,             \* the open transaction of updateReleaseNotesInDb
    mutex,          \* impl.mutex: its holder
    loc             \* each process: its position and its local variables

vars == <<cfg, github, heap, releaseCache, tmpFile, blob, rows, tx, mutex, loc>>

store == <<heap, releaseCache, tmpFile, blob, rows>>

-----------------------------------------------------------------------------
(* Bounds *)

MaxTags == 2

Tags == 1..MaxTags

Webhooks == {"w1", "w2"}
Getters == {"g1", "g2"}
Inits == {"init"}
Procs == Webhooks \cup Getters \cup Inits

-----------------------------------------------------------------------------
(* Constants of the program *)

ActionPublished == "published"
ActionEdited == "edited"
EventTypeRelease == "release"
PrerequisitesMatcher == "<!--upgrade-prerequisites-required-->"
CACHE_KEY == "latest"

SECRET_VALIDATOR_SHA1 == "SHA-1"
SECRET_VALIDATOR_URL_APPEND == "URL_APPEND"
SECRET_VALIDATOR_PLAIN_TEXT == "PLAIN_TEXT"

StatusOK == 200
StatusBadRequest == 400
StatusUnauthorized == 401
StatusInternalServerError == 500

\* no tag: the empty string
NoTag == 0
\* no object in blob storage, no local file
NoFile == -1
\* the connection was dropped by a runtime panic: no response written
NoResponse == -1

-----------------------------------------------------------------------------
(* Strings *)

Min(S) == CHOOSE x \in S : \A y \in S : x <= y
Max(S) == CHOOSE x \in S : \A y \in S : y <= x

\* strings.Index / strings.LastIndex of a one-token separator: 0-based, -1 if absent
Index(s, sep) ==
    IF \E i \in DOMAIN s : s[i] = sep
    THEN Min({i \in DOMAIN s : s[i] = sep}) - 1
    ELSE -1

LastIndex(s, sep) ==
    IF \E i \in DOMAIN s : s[i] = sep
    THEN Max({i \in DOMAIN s : s[i] = sep}) - 1
    ELSE -1

\* s[from:to] of Go: 0-based, to exclusive
Slice(s, from, to) == [i \in 1..(to - from) |-> s[from + i]]

RECURSIVE ReplaceAllEmpty(_, _)
\* strings.ReplaceAll(s, sep, "")
ReplaceAllEmpty(s, sep) ==
    IF s = <<>> THEN <<>>
    ELSE IF Head(s) = sep THEN ReplaceAllEmpty(Tail(s), sep)
    ELSE <<Head(s)>> \o ReplaceAllEmpty(Tail(s), sep)

\* strings.SplitN(s, sep, 2): one part when sep does not occur, else two
SplitN2(s, sep) ==
    IF Index(s, sep) = -1 THEN <<s>>
    ELSE <<Slice(s, 0, Index(s, sep)), Slice(s, Index(s, sep) + 1, Len(s))>>

-----------------------------------------------------------------------------
(* Releases *)

\* a timestamp as the tokens of its text: date, separator, time of day, zone
Stamp(sep, zone) == <<"2024-01-01", sep, "10:00:00", zone>>
GoodStamp == Stamp("T", "Z")
BadStamps == {Stamp("T", "+05:30"), <<>>}

\* time.Time{}: the zero value
ZeroTime == <<>>

\* time.Parse(TimeFormatLayout, value): the time and whether parsing failed; the
\* layout is a date, the letter T, a time of day and the letter Z
ParseTime(value) ==
    IF Len(value) = 4 /\ value[2] = "T" /\ value[4] = "Z"
    THEN [time |-> <<value[1], value[3]>>, error |-> FALSE]
    ELSE [time |-> ZeroTime, error |-> TRUE]

\* common.Release with its timestamps
ReleaseAt(tag, name, body, createdAt, publishedAt) ==
    [TagName |-> tag, ReleaseName |-> name, Body |-> body,
     CreatedAt |-> createdAt, PublishedAt |-> publishedAt,
     Prerequisite |-> FALSE, PrerequisiteMessage |-> <<>>]

\* a release created and published at the time of GoodStamp
Release(tag, name, body) ==
    ReleaseAt(tag, name, body, ParseTime(GoodStamp).time, ParseTime(GoodStamp).time)

\* getPrerequisiteContent cutting at the first occurrence of the marker, not the last
\* (C13 depends on the last occurrence)
getPrerequisiteContentToFirst(r) ==
    IF Index(r.Body, PrerequisitesMatcher) # -1
    THEN [r EXCEPT !.Prerequisite = TRUE]
    ELSE r

\* getPrerequisiteContent taking the text after a single marker as the message
getPrerequisiteContentToEnd(r) ==
    IF Index(r.Body, PrerequisitesMatcher) # -1
    THEN LET start == Index(r.Body, PrerequisitesMatcher)
             end == LastIndex(r.Body, PrerequisitesMatcher)
         IN  IF end = start
             THEN [r EXCEPT !.Prerequisite = TRUE,
                            !.PrerequisiteMessage =
                                ReplaceAllEmpty(Slice(r.Body, start, Len(r.Body)),
                                                PrerequisitesMatcher)]
             ELSE [r EXCEPT !.Prerequisite = TRUE,
                            !.PrerequisiteMessage =
                                ReplaceAllEmpty(Slice(r.Body, start, end), PrerequisitesMatcher)]
    ELSE r

\* getPrerequisiteContent
getPrerequisiteContent(r) ==
    IF Index(r.Body, PrerequisitesMatcher) # -1
    THEN LET start == Index(r.Body, PrerequisitesMatcher)
             end == LastIndex(r.Body, PrerequisitesMatcher)
         IN  IF end = 0
             THEN [r EXCEPT !.Prerequisite = TRUE]
             ELSE [r EXCEPT !.Prerequisite = TRUE,
                            !.PrerequisiteMessage =
                                ReplaceAllEmpty(Slice(r.Body, start, end), PrerequisitesMatcher)]
    ELSE r

TagsOf(list) == {list[i].TagName : i \in DOMAIN list}

\* the position of the entry of a tag in a list of releases, 0 if there is none
PosOf(list, tag) ==
    IF tag \in TagsOf(list) THEN Min({i \in DOMAIN list : list[i].TagName = tag}) ELSE 0

-----------------------------------------------------------------------------
(* The webhook request *)

Secret == "s"
OtherSecret == "k"

Lit(s) == <<"lit", s>>

\* hex.EncodeToString of the HMAC-SHA1 of msg under key: one token per (key, msg)
HmacSha1Hex(key, msg) == <<"hmac", key, msg>>

Actions == {ActionPublished, ActionEdited, "deleted"}
EventTypes == {EventTypeRelease, "", "push"}

NameOf(p) == IF p = "w1" THEN "name-1" ELSE "name-2"
BodyOf(p) ==
    IF p = "w1" THEN <<"notes">>
    ELSE <<"intro", PrerequisitesMatcher, "do X", PrerequisitesMatcher, "outro">>

\* form: what the body of the request is: a release event as the source-control
\* host writes it, bytes that are not JSON, or JSON where a key the handler reads is
\* absent or holds another type
WellFormed == "json"
Forms == {WellFormed, "notJson", "noAction", "noRelease", "noField"}

Payloads(p) ==
    {[form |-> WellFormed, action |-> a, tag |-> t, name |-> NameOf(p), body |-> BodyOf(p),
      created |-> GoodStamp, published |-> GoodStamp] :
        a \in Actions, t \in Tags}

\* release events where created_at or published_at is not in the layout
UnparsablePayloads(p) ==
    {[form |-> WellFormed, action |-> ActionPublished, tag |-> t, name |-> NameOf(p),
      body |-> BodyOf(p), created |-> c, published |-> d] :
        t \in Tags, c \in BadStamps \cup {GoodStamp}, d \in BadStamps \cup {GoodStamp}}
    \ Payloads(p)

\* the malformed bodies: an action, where one can be read, is published or deleted
MalformedPayloads(p) ==
    {[form |-> f, action |-> a, tag |-> 1, name |-> NameOf(p), body |-> BodyOf(p),
      created |-> GoodStamp, published |-> GoodStamp] :
        f \in {"noRelease", "noField"}, a \in {ActionPublished, "deleted"}}
    \cup {[form |-> f, action |-> "", tag |-> NoTag, name |-> "", body |-> <<>>,
            created |-> <<>>, published |-> <<>>] :
        f \in {"notJson", "noAction"}}

NoPayload ==
    [form |-> WellFormed, action |-> "", tag |-> NoTag, name |-> "", body |-> <<>>,
     created |-> <<>>, published |-> <<>>]

\* the signature header GitHub sends for a body
SignatureOf(pl) == <<Lit("sha1"), Lit("="), HmacSha1Hex(Secret, pl)>>

\* the shapes of the signature header
SigHeaders(pl) ==
    { SignatureOf(pl),
      <<>>,
      <<Lit("sha1")>>,
      <<HmacSha1Hex(Secret, pl)>>,
      <<Lit("sha256"), Lit("="), HmacSha1Hex(Secret, pl)>>,
      <<Lit("sha1"), Lit("="), HmacSha1Hex(OtherSecret, pl)>>,
      <<Lit("sha1"), Lit("="), HmacSha1Hex(Secret, NoPayload)>>,
      <<Lit("sha1"), Lit("="), HmacSha1Hex(Secret, pl), Lit("="), Lit("x")>>,
      <<Lit(Secret)>> }

\* the headers a validator mode accepts
GoodHeaders(pl) == {SignatureOf(pl), <<Lit(Secret)>>}

\* every header shape with the event type "release", every event type with a good header
AllRequests(p) ==
    UNION {{[sig |-> h, event |-> EventTypeRelease, url |-> "", payload |-> pl] :
                h \in SigHeaders(pl)}
           \cup {[sig |-> h, event |-> e, url |-> "", payload |-> pl] :
                h \in GoodHeaders(pl), e \in EventTypes}
           \cup {[sig |-> <<>>, event |-> EventTypeRelease, url |-> u, payload |-> pl] :
                u \in {Secret, OtherSecret}} :
              pl \in Payloads(p)}

\* the deliveries of the source-control host: signed, of event type "release"
GenuineRequests(p) ==
    {[sig |-> SignatureOf(pl), event |-> EventTypeRelease, url |-> "", payload |-> pl] :
        pl \in Payloads(p)}

\* signed deliveries of event type "release" whose body is malformed
MalformedRequests(p) ==
    {[sig |-> SignatureOf(pl), event |-> EventTypeRelease, url |-> "", payload |-> pl] :
        pl \in MalformedPayloads(p)}

\* signed deliveries of event type "release" with a timestamp that does not parse
UnparsableRequests(p) ==
    {[sig |-> SignatureOf(pl), event |-> EventTypeRelease, url |-> "", payload |-> pl] :
        pl \in UnparsablePayloads(p)}

\* sig: the signature header; event: the event type header; url: vars["secret"], the
\* last path segment of the callback URL
NoRequest == [sig |-> <<>>, event |-> "", url |-> "", payload |-> NoPayload]

Modes == {SECRET_VALIDATOR_SHA1, SECRET_VALIDATOR_URL_APPEND, SECRET_VALIDATOR_PLAIN_TEXT, "MD5"}

\* ValidateSecret answering true in the default case (C14 depends on the final false)
ValidateSecretOpen(mode, header, body) ==
    IF mode = SECRET_VALIDATOR_SHA1
    THEN LET gotHash == SplitN2(header, Lit("="))
             expectedHash == <<HmacSha1Hex(Secret, body)>>
         IN  IF gotHash[1] # <<Lit("sha1")>> THEN "false"
             ELSE IF Len(gotHash) < 2 THEN "panic"
             ELSE IF gotHash[2] = expectedHash THEN "true" ELSE "false"
    ELSE IF mode = SECRET_VALIDATOR_URL_APPEND THEN "false"
    ELSE IF mode = SECRET_VALIDATOR_PLAIN_TEXT
    THEN IF header = <<Lit(Secret)>> THEN "true" ELSE "false"
    ELSE "true"

\* ValidateSecret: "true", "false", or "panic" (index out of range)
ValidateSecret(mode, header, body) ==
    IF mode = SECRET_VALIDATOR_SHA1
    THEN LET gotHash == SplitN2(header, Lit("="))
             expectedHash == <<HmacSha1Hex(Secret, body)>>
         IN  IF gotHash[1] # <<Lit("sha1")>> THEN "false"
             ELSE IF Len(gotHash) < 2 THEN "panic"
             ELSE IF gotHash[2] = expectedHash THEN "true" ELSE "false"
    ELSE IF mode = SECRET_VALIDATOR_URL_APPEND THEN "false"
    ELSE IF mode = SECRET_VALIDATOR_PLAIN_TEXT
    THEN IF header = <<Lit(Secret)>> THEN "true" ELSE "false"
    ELSE "false"

\* ReleaseWebhookHandler: the event type it turns away
EventRejected(eventType) == eventType = "" /\ eventType # EventTypeRelease

\* UpdateReleases up to releaseInfo: what json.Unmarshal and the type assertions
\* make of the body: "error" (return false, err), "panic" (an assertion x.(T) on a
\* missing key or another type), "ignored" (return false, nil), or "release"
Parsed(pl, handled) ==
    IF pl.form = "notJson" THEN "error"
    ELSE IF pl.form = "noAction" THEN "panic"
    ELSE IF ~handled THEN "ignored"
    ELSE IF pl.form \in {"noRelease", "noField"} THEN "panic"
    ELSE "release"

\* UpdateReleases returning false, nil when a timestamp does not parse
AfterTimeParseReturn(error) == IF error THEN "return" ELSE "continue"

\* UpdateReleases after time.Parse: the error is logged, the return is commented out
AfterTimeParse(error) == "continue"

\* ActionHandled without the check of the action (C2 depends on the check)
ActionHandledAny(action) == TRUE

\* UpdateReleases: the actions it handles
ActionHandled(action) == ~(action # ActionPublished /\ action # ActionEdited)

-----------------------------------------------------------------------------
(* The external source *)

FirstRelease == Release(1, "name-0", <<"first">>)

\* the feed when the service starts
Feeds == {<<>>, <<FirstRelease>>}

\* what an event does to the feed of the source
GhApply(feed, pl) ==
    IF pl.action = ActionPublished /\ pl.tag \notin TagsOf(feed)
    THEN <<Release(pl.tag, pl.name, pl.body)>> \o feed
    ELSE IF pl.action = ActionEdited /\ pl.tag \in TagsOf(feed)
    THEN [i \in DOMAIN feed |->
            IF feed[i].TagName = pl.tag
            THEN [feed[i] EXCEPT !.ReleaseName = pl.name, !.Body = pl.body]
            ELSE feed[i]]
    ELSE IF pl.action = "deleted"
    THEN SelectSeq(feed, LAMBDA r : r.TagName # pl.tag)
    ELSE feed

\* GetReleasesFromGithub: the DTO list built from the items of the feed
GetReleasesFromGithub(feed) == [i \in DOMAIN feed |-> getPrerequisiteContent(feed[i])]

\* the err of ListReleases: nil, a *github.ErrorResponse with status 404, another error
NoError == "nil"
NotFound == "404"
OtherError == "error"
Errors == {NoError, NotFound, OtherError}

\* GetReleasesFromGithub reading a 404 as "no releases": an empty list, success
ListAndConvertNotFoundOk(feed, err) ==
    IF err = NotFound THEN [dto |-> <<>>, status |-> TRUE]
    ELSE IF err # NoError THEN [dto |-> <<>>, status |-> FALSE]
    ELSE [dto |-> GetReleasesFromGithub(feed), status |-> TRUE]

\* GetReleasesFromGithub with the answer of ListReleases: releasesDto, operationComplete
ListAndConvert(feed, err) ==
    IF err # NoError
    THEN IF err # NotFound
         THEN [dto |-> <<>>, status |-> FALSE]
         ELSE [dto |-> <<>>, status |-> FALSE]
    ELSE [dto |-> GetReleasesFromGithub(feed), status |-> TRUE]

-----------------------------------------------------------------------------
(* The state *)

EmptyMap == [k \in {} |-> <<>>]

\* releaseCache[CACHE_KEY]: nil when the key is absent
Cached == IF CACHE_KEY \in DOMAIN releaseCache THEN releaseCache[CACHE_KEY] ELSE <<>>

\* the releases a list of pointers points to
Deref(ptrs) == [i \in DOMAIN ptrs |-> heap[ptrs[i]]]

NoTx == [open |-> FALSE, rows |-> <<>>]

ReleaseNote(id, list, active) == [Id |-> id, ReleaseNote |-> list, IsActive |-> active]

ActiveIds(rs) == {i \in DOMAIN rs : rs[i].IsActive}

\* index only_one_row_with_active_release_note
only_one_row_with_active_release_note(rs) == Cardinality(ActiveIds(rs)) <= 1

\* the requests in flight together
Scenarios == {{"w1", "w2", "g1"}, {"w1", "g1", "init"}, {"w1", "w2", "init"}}

\* the offset and size parameters of GET /releases; an absent parameter leaves 0
NoQuery == [offset |-> 0, limit |-> 0]

Local ==
    [pc |-> "idle", req |-> NoRequest, valid |-> "", info |-> Release(NoTag, "", <<>>),
     ptrs |-> <<>>, todo |-> <<>>, list |-> <<>>, latest |-> NoTag,
     retryCount |-> 0, log |-> <<>>, fetchFailed |-> FALSE, found |-> 0,
     webhookResult |-> FALSE,
     operationComplete |-> FALSE, updated |-> FALSE, err |-> FALSE, status |-> 0,
     resp |-> <<>>, committed |-> FALSE, query |-> NoQuery]

\* the state of the process after construction
EmptyProcess ==
    /\ heap = EmptyMap
    /\ releaseCache = EmptyMap
    /\ tmpFile = NoFile
    /\ tx = NoTx
    /\ mutex = "free"
    /\ loc = [p \in Procs |-> Local]

\* the state after construction; the table and the blob object are empty
Empty ==
    /\ EmptyProcess
    /\ blob = NoFile
    /\ rows = <<>>

Start == github \in Feeds /\ Empty

Init ==
    /\ cfg \in [cloud : BOOLEAN, mode : {SECRET_VALIDATOR_SHA1}, procs : Scenarios]
    /\ Start

-----------------------------------------------------------------------------
(* ReleaseWebhookHandler and UpdateReleases *)

\* the locals of GetReleasesFromGithubWithRetry end with the use of its result
Used(l) == [l EXCEPT !.retryCount = 0, !.log = <<>>, !.operationComplete = FALSE]

\* the locals that outlive the call: the request, the answer and the counts
Done(l) ==
    [l EXCEPT !.pc = "done", !.req = [NoRequest EXCEPT !.payload = l.req.payload],
              !.info = Release(NoTag, "", <<>>), !.ptrs = <<>>, !.todo = <<>>,
              !.list = <<>>, !.latest = NoTag, !.found = 0, !.webhookResult = FALSE]

\* ReleaseWebhookHandler: what it answers to the result of UpdateReleases
Ret(l, updated, err) ==
    [Done(l) EXCEPT !.updated = updated, !.err = err,
                    !.status = IF err THEN StatusInternalServerError ELSE StatusOK]

\* AfterValidate without the early return (C9 depends on the return)
AfterValidateAny(isValidSig) == "event"

\* ReleaseWebhookHandler: whether it goes on after the validator's answer
AfterValidate(isValidSig) == IF ~isValidSig THEN "done" ELSE "event"

\* ReleaseWebhookHandler up to the first access of UpdateReleases to the store:
\* the signature, the event type, the parse of the payload and its action
Handle(l, mode, cloud) ==
    LET pl == l.req.payload
        v == ValidateSecret(mode, l.req.sig, pl)
    IN  IF v = "panic"
        THEN [Done(l) EXCEPT !.valid = v, !.status = NoResponse]
        ELSE IF AfterValidate(v = "true") = "done"
        THEN [Done(l) EXCEPT !.valid = v, !.status = StatusUnauthorized]
        ELSE IF EventRejected(l.req.event)
        THEN [Done(l) EXCEPT !.valid = v, !.status = StatusBadRequest]
        ELSE IF Parsed(pl, ActionHandled(pl.action)) = "error"
        THEN [Ret(l, FALSE, TRUE) EXCEPT !.valid = v]
        ELSE IF Parsed(pl, ActionHandled(pl.action)) = "panic"
        THEN [Done(l) EXCEPT !.valid = v, !.status = NoResponse]
        ELSE IF Parsed(pl, ActionHandled(pl.action)) = "ignored"
        THEN [Ret(l, FALSE, FALSE) EXCEPT !.valid = v]
        ELSE IF \/ AfterTimeParse(ParseTime(pl.created).error) = "return"
                \/ AfterTimeParse(ParseTime(pl.published).error) = "return"
        THEN [Ret(l, FALSE, FALSE) EXCEPT !.valid = v]
        ELSE [l EXCEPT !.valid = v,
                       !.pc = IF cloud THEN "readCache" ELSE "findActive",
                       !.info = getPrerequisiteContent(
                                    ReleaseAt(pl.tag, pl.name, pl.body,
                                              ParseTime(pl.created).time,
                                              ParseTime(pl.published).time))]

\* a request arrives; a delivery of the source-control host follows an event of its feed
Arrive(p, reqs) ==
    /\ loc[p].pc = "idle"
    /\ \E r \in reqs :
        /\ loc' = [loc EXCEPT ![p].pc = "received", ![p].req = r]
        /\ github' = IF r \in GenuineRequests(p) THEN GhApply(github, r.payload) ELSE github
    /\ UNCHANGED <<cfg, heap, releaseCache, tmpFile, blob, rows, tx, mutex>>

\* ReleaseWebhookHandler up to the store
Serve(p) ==
    /\ loc[p].pc = "received"
    /\ loc' = [loc EXCEPT ![p] = Handle(@, cfg.mode, cfg.cloud)]
    /\ UNCHANGED <<cfg, github, heap, releaseCache, tmpFile, blob, rows, tx, mutex>>

\* IsNew comparing the tag with the first entry only
IsNewUnlessFirst(list, tag) == list = <<>> \/ list[1].TagName # tag

\* IsNew that is never set: no release is prepended
IsNewNever(list, tag) == FALSE

\* IsNew without the loop that clears it (C1 depends on the match by tag)
IsNewAlways(list, tag) == TRUE

\* UpdateReleases: isNew after the loop over a list
IsNew(list, tag) == \A i \in DOMAIN list : list[i].TagName # tag

\* UpdateReleases, cloud: the read of the cache; a new release is prepended
ReadCache(p) ==
    /\ loc[p].pc = "readCache"
    /\ LET releaseNotes == Cached
           info == loc[p].info
           new == <<p, info.TagName>>
           match == SelectSeq(releaseNotes, LAMBDA o : heap[o].TagName = info.TagName)
       IN  IF IsNew(Deref(releaseNotes), info.TagName)
           THEN /\ heap' = (new :> info) @@ heap
                /\ loc' = [loc EXCEPT ![p].pc = IF match = <<>> THEN "writeCache" ELSE "mutName",
                                      ![p].todo = match,
                                      ![p].ptrs = <<new>> \o releaseNotes]
           ELSE /\ heap' = heap
                /\ loc' = [loc EXCEPT ![p].pc = IF match = <<>> THEN "writeCache" ELSE "mutName",
                                      ![p].todo = match,
                                      ![p].ptrs = releaseNotes]
    /\ UNCHANGED <<cfg, github, releaseCache, tmpFile, blob, rows, tx, mutex>>

\* release.ReleaseName = releaseInfo.ReleaseName, on the object the cache points to
MutName(p) ==
    /\ loc[p].pc = "mutName"
    /\ heap' = [heap EXCEPT ![Head(loc[p].todo)].ReleaseName = loc[p].info.ReleaseName]
    /\ loc' = [loc EXCEPT ![p].pc = "mutBody"]
    /\ UNCHANGED <<cfg, github, releaseCache, tmpFile, blob, rows, tx, mutex>>

\* release.Body = releaseInfo.Body
MutBody(p) ==
    /\ loc[p].pc = "mutBody"
    /\ heap' = [heap EXCEPT ![Head(loc[p].todo)].Body = loc[p].info.Body]
    /\ loc' = [loc EXCEPT ![p].todo = Tail(@),
                          ![p].pc = IF Tail(loc[p].todo) = <<>> THEN "writeCache" ELSE "mutName"]
    /\ UNCHANGED <<cfg, github, releaseCache, tmpFile, blob, rows, tx, mutex>>

-----------------------------------------------------------------------------
(* The cache and the marker: UpdateReleases, GetReleases, GetReleasesOnInitialisation *)

\* an initialisation that does not return after a failed write of the marker
UploadedFatal(p, l, artifactUploaded, err) ==
    IF p \in Webhooks THEN Ret(l, artifactUploaded, err)
    ELSE IF p \in Getters
    THEN IF err
         THEN [Done(l) EXCEPT !.err = TRUE, !.status = StatusInternalServerError]
         ELSE [l EXCEPT !.pc = "respond"]
    ELSE IF err THEN [l EXCEPT !.err = TRUE] ELSE Done(l)

\* what the caller of updateTagToBlobStorage does with its result:
\* UpdateReleases returns it, GetReleases returns the list or the error,
\* GetReleasesOnInitialisation logs
Uploaded(p, l, artifactUploaded, err) ==
    IF p \in Webhooks THEN Ret(l, artifactUploaded, err)
    ELSE IF p \in Getters
    THEN IF err
         THEN [Done(l) EXCEPT !.err = TRUE, !.status = StatusInternalServerError]
         ELSE [l EXCEPT !.pc = "respond"]
    ELSE [Done(l) EXCEPT !.err = err]

\* releaseCache[CACHE_KEY] = releaseList
WriteCache(p) ==
    /\ loc[p].pc = "writeCache"
    /\ releaseCache' = (CACHE_KEY :> loc[p].ptrs)
    /\ loc' = [loc EXCEPT ![p] = [Used(@) EXCEPT !.pc = "writeFile"]]
    /\ UNCHANGED <<cfg, github, heap, tmpFile, blob, rows, tx, mutex>>

\* createFileAndUpdateDataForBlob(releaseInfo.TagName)
WriteFile(p) ==
    /\ loc[p].pc = "writeFile"
    /\ \/ /\ tmpFile' = loc[p].info.TagName
          /\ loc' = [loc EXCEPT ![p].pc = "upload"]
       \/ /\ tmpFile' = tmpFile
          /\ loc' = [loc EXCEPT ![p] = Uploaded(p, @, FALSE, TRUE)]
    /\ UNCHANGED <<cfg, github, heap, releaseCache, blob, rows, tx, mutex>>

\* UploadToBlobWithSession: the local file becomes the blob object
Upload(p) ==
    /\ loc[p].pc = "upload"
    /\ \/ /\ blob' = tmpFile
          /\ loc' = [loc EXCEPT ![p] = Uploaded(p, @, TRUE, FALSE)]
       \/ /\ blob' = blob
          /\ loc' = [loc EXCEPT ![p] = Uploaded(p, @, FALSE, TRUE)]
    /\ UNCHANGED <<cfg, github, heap, releaseCache, tmpFile, rows, tx, mutex>>

-----------------------------------------------------------------------------
(* GetReleasesFromGithubWithRetry *)

MaxAttempts == 3

\* RetryLoop without the bound on the attempts (C6 depends on the bound)
RetryLoopUnbounded(operationComplete, retryCount) == ~operationComplete

\* RetryLoop without the stop on success (C7 depends on the stop)
RetryLoopIgnoringSuccess(operationComplete, retryCount) == retryCount < MaxAttempts

\* the condition of the retry loop
RetryLoop(operationComplete, retryCount) == ~operationComplete /\ retryCount < MaxAttempts

\* the pointers to the DTOs of a fetched list
PtrsOf(p, list) == [i \in DOMAIN list |-> <<p, list[i].TagName>>]

\* the DTOs of a fetched list, as objects
ObjectsOf(p, list) ==
    [o \in {<<p, list[i].TagName>> : i \in DOMAIN list} |->
        list[CHOOSE i \in DOMAIN list : list[i].TagName = o[2]]]

\* a GetReleases that answers with the empty list after the terminal error
FetchedSwallowed(p, l) ==
    IF ~l.operationComplete
    THEN IF p \in Getters
         THEN [l EXCEPT !.pc = "respond", !.list = <<>>, !.ptrs = <<>>]
         ELSE [Done(l) EXCEPT !.err = TRUE, !.fetchFailed = TRUE]
    ELSE IF p \in Getters /\ ~cfg.cloud
    THEN [l EXCEPT !.pc = "lock", !.webhookResult = FALSE]
    ELSE IF Len(l.list) > 0
    THEN [l EXCEPT !.pc = "writeCache", !.info = l.list[1], !.ptrs = PtrsOf(p, l.list)]
    ELSE IF p \in Getters THEN [l EXCEPT !.pc = "respond"]
    ELSE Done(l)

\* where a process goes with the result of GetReleasesFromGithubWithRetry
Fetched(p, l) ==
    IF ~l.operationComplete
    THEN \* the terminal error
         IF p \in Getters
         THEN [Done(l) EXCEPT !.err = TRUE, !.fetchFailed = TRUE,
                              !.status = StatusInternalServerError]
         ELSE [Done(l) EXCEPT !.err = TRUE, !.fetchFailed = TRUE]
    ELSE IF p \in Getters /\ ~cfg.cloud
    THEN [l EXCEPT !.pc = "lock", !.webhookResult = FALSE]
    ELSE IF Len(l.list) > 0
    THEN [l EXCEPT !.pc = "writeCache", !.info = l.list[1], !.ptrs = PtrsOf(p, l.list)]
    ELSE IF p \in Getters THEN [l EXCEPT !.pc = "respond"]
    ELSE Done(l)

\* one turn of the loop: a call of GetReleasesFromGithub, then the loop condition;
\* errs: the errors ListReleases can answer with
FetchWith(p, errs) ==
    /\ loc[p].pc = "fetch"
    /\ \E err \in errs :
        LET result == ListAndConvert(github, err)
            releaseStatus == result.status
            releasesDto == result.dto
            l == [loc[p] EXCEPT
                    !.retryCount = @ + 1,
                    !.log = Append(@, [status |-> releaseStatus, dto |-> releasesDto,
                                       err |-> err]),
                    !.operationComplete = IF releaseStatus THEN TRUE ELSE @,
                    !.list = IF releaseStatus THEN releasesDto ELSE @]
        IN  /\ loc' = [loc EXCEPT ![p] =
                        IF RetryLoop(l.operationComplete, l.retryCount) THEN l
                        ELSE Fetched(p, l)]
            /\ heap' = IF loc'[p].pc = "writeCache" THEN ObjectsOf(p, l.list) @@ heap ELSE heap
    /\ UNCHANGED <<cfg, github, releaseCache, tmpFile, blob, rows, tx, mutex>>

\* a fetch from a source that answers, or fails with an error other than 404
Fetch(p) == FetchWith(p, {NoError, OtherError})

-----------------------------------------------------------------------------
(* The release_notes table: updateReleaseNotesInDb under impl.mutex *)

\* UpdateReleases, relational: the merge of the release into the list read
Merge(list, info) ==
    LET updated == [i \in DOMAIN list |->
                      IF list[i].TagName = info.TagName
                      THEN [list[i] EXCEPT !.ReleaseName = info.ReleaseName, !.Body = info.Body]
                      ELSE list[i]]
    IN  IF IsNew(list, info.TagName) THEN <<info>> \o updated ELSE updated

\* FindActive: the active row, 0 for pg.ErrNoRows
FindActive(rs) == IF ActiveIds(rs) = {} THEN 0 ELSE CHOOSE i \in ActiveIds(rs) : TRUE

\* the read that takes no active row for an empty list and goes on
ReadActiveOrEmpty(p) ==
    /\ loc[p].pc = "findActive"
    /\ \E dbErr \in BOOLEAN :
        loc' = [loc EXCEPT ![p] =
                 IF dbErr
                 THEN Ret(@, FALSE, TRUE)
                 ELSE [@ EXCEPT !.pc = "lock", !.webhookResult = TRUE,
                                !.list = Merge(IF FindActive(rows) = 0 THEN <<>>
                                               ELSE rows[FindActive(rows)].ReleaseNote,
                                               loc[p].info)]]
    /\ UNCHANGED <<cfg, github, heap, releaseCache, tmpFile, blob, rows, tx, mutex>>

\* UpdateReleases, relational: getActiveReleaseNote and the merge
ReadActive(p) ==
    /\ loc[p].pc = "findActive"
    /\ \E dbErr \in BOOLEAN :
        loc' = [loc EXCEPT ![p] =
                 IF dbErr \/ FindActive(rows) = 0
                 THEN Ret(@, FALSE, TRUE)
                 ELSE [@ EXCEPT !.pc = "lock", !.webhookResult = TRUE,
                                !.list = Merge(rows[FindActive(rows)].ReleaseNote, loc[p].info)]]
    /\ UNCHANGED <<cfg, github, heap, releaseCache, tmpFile, blob, rows, tx, mutex>>

\* impl.mutex.Lock()
Lock(p) ==
    /\ loc[p].pc = "lock"
    /\ mutex = "free"
    /\ mutex' = p
    /\ loc' = [loc EXCEPT ![p] = [Used(@) EXCEPT !.pc = "dbBegin"]]
    /\ UNCHANGED <<cfg, github, heap, releaseCache, tmpFile, blob, rows, tx>>

\* the return of the caller of updateReleaseNotesInDb, whose error it drops:
\* UpdateReleases returns true, nil; GetReleases returns the list
Updated(p, l) ==
    IF p \in Webhooks THEN Ret(l, TRUE, FALSE) ELSE [l EXCEPT !.pc = "respond"]

\* updateReleaseNotesInDb: Begin and STEP-1's read of the active row
DbBegin(p) ==
    /\ loc[p].pc = "dbBegin"
    /\ \E dbErr \in BOOLEAN :
        LET found == FindActive(rows) IN
        IF dbErr \/ (found = 0 /\ loc[p].webhookResult)
        THEN /\ loc' = [loc EXCEPT ![p] = Updated(p, @)]
             /\ mutex' = "free"
             /\ tx' = NoTx
        ELSE /\ loc' = [loc EXCEPT ![p].pc = "dbSwap", ![p].found = found]
             /\ mutex' = mutex
             /\ tx' = [open |-> TRUE, rows |-> rows]
    /\ UNCHANGED <<cfg, github, heap, releaseCache, tmpFile, blob, rows>>

\* the old row deleted instead of marked inactive
MarkInactiveDeleted(rs, found) ==
    SelectSeq(rs, LAMBDA r : found = 0 \/ r.Id # rs[found].Id)

\* MarkInactive without the update of the old row (C3 depends on the update)
MarkInactiveSkipped(rs, found) == rs

\* updateReleaseNotesInDb: the old row marked inactive
MarkInactive(rs, found) ==
    [i \in DOMAIN rs |-> IF i = found /\ rs[i].Id > 0 THEN [rs[i] EXCEPT !.IsActive = FALSE] ELSE rs[i]]

\* a rollback that keeps what the failed call wrote through the transaction
RollbackKeepsWrites(rs, t) == t.rows

\* the deferred tx.Rollback(): the table without the writes of the transaction
Rollback(rs, t) == rs

\* updateReleaseNotesInDb: mark inactive, STEP-2 insert active, in the transaction;
\* Update fails with nothing written, or Save fails after the old row was marked
DbSwap(p) ==
    /\ loc[p].pc = "dbSwap"
    /\ \/ /\ tx' = [tx EXCEPT !.rows = Append(MarkInactive(@, loc[p].found),
                                              ReleaseNote(Len(@) + 1, loc[p].list, TRUE))]
          /\ loc' = [loc EXCEPT ![p].pc = "dbCommit"]
          /\ mutex' = mutex
          /\ rows' = rows
       \/ /\ \E marked \in BOOLEAN :
                rows' = Rollback(rows, IF marked
                                       THEN [tx EXCEPT !.rows = MarkInactive(@, loc[p].found)]
                                       ELSE tx)
          /\ tx' = NoTx
          /\ loc' = [loc EXCEPT ![p] = Updated(p, @)]
          /\ mutex' = "free"
    /\ UNCHANGED <<cfg, github, heap, releaseCache, tmpFile, blob>>

\* tx.Commit(), the deferred Rollback and Unlock
DbCommit(p) ==
    /\ loc[p].pc = "dbCommit"
    /\ \/ /\ rows' = tx.rows
          /\ loc' = [loc EXCEPT ![p] = [Updated(p, @) EXCEPT !.committed = TRUE]]
       \/ /\ rows' = Rollback(rows, tx)
          /\ loc' = [loc EXCEPT ![p] = Updated(p, @)]
    /\ tx' = NoTx
    /\ mutex' = "free"
    /\ UNCHANGED <<cfg, github, heap, releaseCache, tmpFile, blob>>

-----------------------------------------------------------------------------
(* GetReleases *)

\* GetReleases, cloud: getLatestTagFromBlobStorage downloads the marker
Download(p) ==
    /\ loc[p].pc = "idle"
    /\ cfg.cloud
    /\ \E status \in BOOLEAN :
        IF status /\ blob # NoFile
        THEN /\ tmpFile' = blob
             /\ loc' = [loc EXCEPT ![p].pc = "readFile"]
        ELSE /\ tmpFile' = tmpFile
             /\ loc' = [loc EXCEPT ![p] = [Done(@) EXCEPT !.err = TRUE,
                                                          !.status = StatusInternalServerError]]
    /\ UNCHANGED <<cfg, github, heap, releaseCache, blob, rows, tx, mutex>>

\* os.ReadFile of the downloaded marker
ReadFile(p) ==
    /\ loc[p].pc = "readFile"
    /\ loc' = [loc EXCEPT ![p].pc = "compare", ![p].latest = tmpFile]
    /\ UNCHANGED <<cfg, github, heap, releaseCache, tmpFile, blob, rows, tx, mutex>>

\* tagNameFromCache reading the last release of the cache
tagNameFromCacheLast ==
    IF Cardinality(DOMAIN releaseCache) > 0
    THEN heap[releaseCache[CACHE_KEY][Len(releaseCache[CACHE_KEY])]].TagName
    ELSE NoTag

\* the tag of the first release of the cache, "" for an empty map
tagNameFromCache ==
    IF Cardinality(DOMAIN releaseCache) > 0 THEN heap[releaseCache[CACHE_KEY][1]].TagName ELSE NoTag

\* the comparison reporting a difference always (C16 depends on the comparison)
FreshNever(tagName, latestTagFromBlob) == FALSE

\* the comparison reporting equality always (C17 depends on the comparison)
FreshAlways(tagName, latestTagFromBlob) == TRUE

\* tagNameFromCache == latestTagFromBlob
Fresh(tagName, latestTagFromBlob) == tagName = latestTagFromBlob

\* GetReleases, cloud: serve the cache when its first tag is the marker
Compare(p) ==
    /\ loc[p].pc = "compare"
    /\ loc' = [loc EXCEPT ![p] =
                IF Fresh(tagNameFromCache, @.latest)
                THEN [@ EXCEPT !.pc = "respond", !.ptrs = Cached]
                ELSE [@ EXCEPT !.pc = "fetch"]]
    /\ UNCHANGED <<cfg, github, heap, releaseCache, tmpFile, blob, rows, tx, mutex>>

\* the read that ignores the active row and always goes to the external source
NoActiveListAlways(releaseList) == TRUE

\* GetReleases, relational: releaseList == nil after the read of the active row
NoActiveList(releaseList) == Len(releaseList) = 0

\* GetReleases, relational: the active row, or the external source
GetActive(p) ==
    /\ loc[p].pc = "idle"
    /\ ~cfg.cloud
    /\ \E dbErr \in BOOLEAN :
        LET found == FindActive(rows)
            releaseList == IF found = 0 THEN <<>> ELSE rows[found].ReleaseNote
        IN  loc' = [loc EXCEPT ![p] =
                     IF dbErr
                     THEN [Done(@) EXCEPT !.err = TRUE, !.status = StatusInternalServerError]
                     ELSE IF NoActiveList(releaseList)
                     THEN [@ EXCEPT !.pc = "fetch"]
                     ELSE [@ EXCEPT !.pc = "respond", !.list = releaseList]]
    /\ UNCHANGED <<cfg, github, heap, releaseCache, tmpFile, blob, rows, tx, mutex>>

\* RestHandler.GetReleases: the page of the response, or the runtime panic of a
\* slice whose bounds are out of range
Paginate(response, offset, limit) ==
    IF limit > 0 /\ offset > 0
    THEN IF offset + limit <= Len(response)
         THEN [panic |-> FALSE, page |-> Slice(response, offset, offset + limit)]
         ELSE IF offset > Len(response)
         THEN [panic |-> TRUE, page |-> <<>>]
         ELSE [panic |-> FALSE, page |-> Slice(response, offset, Len(response))]
    ELSE [panic |-> FALSE, page |-> response]

\* the list GetReleases returned to the handler
Served(p) == IF cfg.cloud THEN Deref(loc[p].ptrs) ELSE loc[p].list

\* RestHandler.GetReleases: the page of the list is marshalled into the response;
\* the parameters are integers
RespondTo(p, queries) ==
    /\ loc[p].pc = "respond"
    /\ \E q \in queries :
        LET response == Paginate(Served(p), q.offset, q.limit) IN
        loc' = [loc EXCEPT ![p] =
                 IF response.panic
                 THEN [Done(Used(@)) EXCEPT !.status = NoResponse, !.query = q]
                 ELSE [Done(Used(@)) EXCEPT !.status = StatusOK, !.resp = response.page,
                                            !.query = q]]
    /\ UNCHANGED <<cfg, github, heap, releaseCache, tmpFile, blob, rows, tx, mutex>>

\* a nil interface value; a value v held in an interface is <<v>>
Nil == <<>>

\* WriteJsonResp: the envelope; Result is set when err is nil, Errors otherwise
WriteJsonResp(err, respBody, status) ==
    [code |-> status,
     result |-> IF ~err THEN respBody ELSE Nil,
     errors |-> IF ~err THEN <<>>
                ELSE <<[Code |-> "000", UserMessage |-> respBody]>>]

\* the envelope the handler wrote for the call of p: the page or the flag with 200,
\* nil with every other status, and the err variable of the handler
Envelope(p) ==
    WriteJsonResp(loc[p].err,
                  IF loc[p].status # StatusOK THEN Nil
                  ELSE IF p \in Getters THEN <<loc[p].resp>> ELSE <<loc[p].updated>>,
                  loc[p].status)

\* GET /releases without parameters
Respond(p) == RespondTo(p, {NoQuery})

\* go serviceImpl.GetReleasesOnInitialisation()
StartInit(p) ==
    /\ loc[p].pc = "idle"
    /\ loc' = [loc EXCEPT ![p].pc = "fetch"]
    /\ UNCHANGED <<cfg, github, heap, releaseCache, tmpFile, blob, rows, tx, mutex>>

-----------------------------------------------------------------------------
(* The service: requests and the initialisation run concurrently *)

Running == cfg.procs

Next ==
    \/ \E p \in Webhooks \cap Running :
        \/ Arrive(p, GenuineRequests(p))
        \/ Serve(p)
        \/ ReadCache(p)
        \/ MutName(p)
        \/ MutBody(p)
        \/ ReadActive(p)
    \/ \E p \in Getters \cap Running :
        \/ Download(p)
        \/ ReadFile(p)
        \/ Compare(p)
        \/ GetActive(p)
        \/ Respond(p)
    \/ \E p \in Inits \cap Running : StartInit(p)
    \/ \E p \in Procs :
        \/ Fetch(p)
        \/ WriteCache(p)
        \/ WriteFile(p)
        \/ Upload(p)
        \/ Lock(p)
        \/ DbBegin(p)
        \/ DbSwap(p)
        \/ DbCommit(p)

Spec == Init /\ [][Next]_vars

-----------------------------------------------------------------------------
(* The service with one call at a time: every request shape, every validator mode *)

Quiet == \A q \in Procs : loc[q].pc \in {"idle", "done"}

InitSeq ==
    /\ cfg \in [cloud : BOOLEAN, mode : Modes, procs : Scenarios]
    /\ Start

NextSeq ==
    \/ \E p \in Webhooks \cap Running :
        \/ Quiet /\ Arrive(p, AllRequests(p))
        \/ Serve(p)
        \/ ReadCache(p)
        \/ MutName(p)
        \/ MutBody(p)
        \/ ReadActive(p)
    \/ \E p \in Getters \cap Running :
        \/ Quiet /\ Download(p)
        \/ ReadFile(p)
        \/ Compare(p)
        \/ Quiet /\ GetActive(p)
        \/ Respond(p)
    \/ \E p \in Inits \cap Running : Quiet /\ StartInit(p)
    \/ \E p \in Procs :
        \/ Fetch(p)
        \/ WriteCache(p)
        \/ WriteFile(p)
        \/ Upload(p)
        \/ Lock(p)
        \/ DbBegin(p)
        \/ DbSwap(p)
        \/ DbCommit(p)

SpecSeq == InitSeq /\ [][NextSeq]_vars

-----------------------------------------------------------------------------
(* The service after a start: the initialisation, a webhook and a GET, one call at
   a time, each run to its end *)

InitStart ==
    /\ cfg \in [cloud : BOOLEAN, mode : {SECRET_VALIDATOR_SHA1}, procs : {{"w1", "g1", "init"}}]
    /\ Start

NextStart ==
    \/ \E p \in Webhooks \cap Running :
        \/ Quiet /\ Arrive(p, GenuineRequests(p))
        \/ Serve(p)
        \/ ReadCache(p)
        \/ MutName(p)
        \/ MutBody(p)
        \/ ReadActive(p)
    \/ \E p \in Getters \cap Running :
        \/ Quiet /\ Download(p)
        \/ ReadFile(p)
        \/ Compare(p)
        \/ Quiet /\ GetActive(p)
        \/ Respond(p)
    \/ \E p \in Inits \cap Running : Quiet /\ StartInit(p)
    \/ \E p \in Procs :
        \/ Fetch(p)
        \/ WriteCache(p)
        \/ WriteFile(p)
        \/ Upload(p)
        \/ Lock(p)
        \/ DbBegin(p)
        \/ DbSwap(p)
        \/ DbCommit(p)

\* a call that can take a step takes one: the HTTP server and the goroutine of the
\* constructor run their handlers to the end
SpecStart == InitStart /\ [][NextStart]_vars /\ WF_vars(NextStart)

-----------------------------------------------------------------------------
(* The webhook with signed deliveries of every body form, and a GET, one call at a
   time *)

InitParse ==
    /\ cfg \in [cloud : BOOLEAN, mode : {SECRET_VALIDATOR_SHA1}, procs : {{"w1", "w2", "g1"}}]
    /\ Start

NextParse ==
    \/ \E p \in Webhooks \cap Running :
        \/ Quiet /\ Arrive(p, GenuineRequests(p) \cup MalformedRequests(p) \cup UnparsableRequests(p))
        \/ Serve(p)
        \/ ReadCache(p)
        \/ MutName(p)
        \/ MutBody(p)
        \/ ReadActive(p)
    \/ \E p \in Getters \cap Running :
        \/ Quiet /\ Download(p)
        \/ ReadFile(p)
        \/ Compare(p)
        \/ Quiet /\ GetActive(p)
        \/ Respond(p)
    \/ \E p \in Procs :
        \/ Fetch(p)
        \/ WriteCache(p)
        \/ WriteFile(p)
        \/ Upload(p)
        \/ Lock(p)
        \/ DbBegin(p)
        \/ DbSwap(p)
        \/ DbCommit(p)

SpecParse == InitParse /\ [][NextParse]_vars

-----------------------------------------------------------------------------
(* GET /releases after a start of the service: lists, bodies, query parameters, and
   what an earlier run left in the table and in blob storage *)

MaxLen == 3
MaxBody == 4

\* the release bodies: the marker among other text
Bodies == UNION {[1..k -> {"a", "b", PrerequisitesMatcher}] : k \in 0..MaxBody}

\* feeds of every length
ListFeeds == {[i \in 1..n |-> Release(i, "name-0", <<"first">>)] : n \in 0..MaxLen}

\* feeds of every length, and feeds of one release of every body
ReadFeeds == ListFeeds \cup {<<Release(1, "name-0", b)>> : b \in Bodies}

\* offset and size as integers
Queries == [offset : 0..(MaxLen + 1), limit : 0..MaxLen]

\* the marker an earlier run left in blob storage: the tag of a release that is not
\* the newest of the feed
OldMarker == 2

\* the table an earlier run left: empty, or one active row
OldTables ==
    {<<>>, <<ReleaseNote(1, <<>>, TRUE)>>, <<ReleaseNote(1, <<FirstRelease>>, TRUE)>>}

ReadCases ==
    {[cloud |-> FALSE, github |-> f, blob |-> NoFile, rows |-> <<>>] : f \in ReadFeeds}
    \cup {[cloud |-> FALSE, github |-> f, blob |-> NoFile, rows |-> t] :
            f \in ListFeeds, t \in OldTables}
    \cup {[cloud |-> TRUE, github |-> f, blob |-> b, rows |-> <<>>] :
            f \in ListFeeds, b \in {NoFile, OldMarker}}

InitRead ==
    \E c \in ReadCases :
        /\ cfg = [cloud |-> c.cloud, mode |-> SECRET_VALIDATOR_SHA1, procs |-> {"g1"} \cup Inits]
        /\ github = c.github
        /\ blob = c.blob
        /\ rows = c.rows
        /\ EmptyProcess

NextRead ==
    \/ \E p \in Getters \cap Running :
        \/ Quiet /\ Download(p)
        \/ ReadFile(p)
        \/ Compare(p)
        \/ Quiet /\ GetActive(p)
        \/ RespondTo(p, Queries)
    \/ \E p \in Inits : Quiet /\ StartInit(p)
    \/ \E p \in (Getters \cup Inits) \cap Running :
        \/ FetchWith(p, Errors)
        \/ WriteCache(p)
        \/ WriteFile(p)
        \/ Upload(p)
        \/ Lock(p)
        \/ DbBegin(p)
        \/ DbSwap(p)
        \/ DbCommit(p)

SpecRead == InitRead /\ [][NextRead]_vars

-----------------------------------------------------------------------------
(* Cloud variant: two GET /releases, one after the other, on a marker an earlier run
   left and an empty cache *)

InitTwice ==
    /\ cfg = [cloud |-> TRUE, mode |-> SECRET_VALIDATOR_SHA1, procs |-> Getters]
    /\ github \in ListFeeds
    /\ blob \in {1, OldMarker}
    /\ rows = <<>>
    /\ EmptyProcess

NextTwice ==
    \/ \E p \in Getters \cap Running : Quiet /\ Download(p)
    \/ \E p \in Getters \cap Running : ReadFile(p)
    \/ \E p \in Getters \cap Running : Compare(p)
    \/ \E p \in Getters \cap Running : FetchWith(p, Errors)
    \/ \E p \in Getters \cap Running : WriteCache(p)
    \/ \E p \in Getters \cap Running : WriteFile(p)
    \/ \E p \in Getters \cap Running : Upload(p)
    \/ \E p \in Getters \cap Running : RespondTo(p, Queries)

SpecTwice == InitTwice /\ [][NextTwice]_vars

-----------------------------------------------------------------------------
(* The properties *)

\* the stored release list of the active variant
Stored ==
    IF cfg.cloud THEN Deref(Cached)
    ELSE IF FindActive(rows) = 0 THEN <<>> ELSE rows[FindActive(rows)].ReleaseNote

\* the entries of a list for a tag
EntriesOf(list, tag) == {i \in DOMAIN list : list[i].TagName = tag}

InFlight(p) == loc[p].pc \notin {"idle", "done"}

\* the handler got past the signature and the event type: it calls UpdateReleases
CallsUpdate(p) ==
    /\ ValidateSecret(cfg.mode, loc[p].req.sig, loc[p].req.payload) = "true"
    /\ ~EventRejected(loc[p].req.event)

\* C1: when a webhook release R2 (published or edited) is stored after another webhook
\* release R1 of the same tag was applied, the stored list holds exactly one entry for
\* that tag, and its releaseName and body are those of R2
C1_LastWriteWins ==
    [][\A q \in Webhooks : \A r \in Webhooks \ {q} :
        LET R2 == loc[q].req.payload
            R1 == loc[r].req.payload
        IN  (/\ loc[r].pc = "done" /\ loc[r].updated /\ R1.tag = R2.tag
             /\ \/ cfg.cloud /\ loc[q].pc = "writeCache" /\ loc'[q].pc # "writeCache"
                \/ ~cfg.cloud /\ loc[q].pc = "dbCommit" /\ loc'[q].committed)
            => /\ Cardinality(EntriesOf(Stored', R2.tag)) = 1
               /\ \A i \in EntriesOf(Stored', R2.tag) :
                    Stored'[i].ReleaseName = R2.name /\ Stored'[i].Body = R2.body]_vars

\* two webhook releases of one tag were applied, w1 then w2: one entry, with w2's fields
C1_Witness ==
    /\ \A p \in Webhooks : loc[p].pc = "done" /\ loc[p].updated
    /\ loc["w1"].req.payload.tag = loc["w2"].req.payload.tag
    /\ Cardinality(EntriesOf(Stored, loc["w2"].req.payload.tag)) = 1
    /\ \A i \in EntriesOf(Stored, loc["w2"].req.payload.tag) :
            Stored[i].ReleaseName = NameOf("w2") /\ Stored[i].Body = BodyOf("w2")

\* C2: while a webhook call whose action is neither "published" nor "edited" is served,
\* no step changes the cache, the marker or the rows, and when UpdateReleases was
\* called it returns updated = false with no error (status 200), in both variants
C2_OtherActionNoEffect ==
    [][\A p \in Webhooks :
        (InFlight(p) /\ loc[p].req.payload.action \notin {ActionPublished, ActionEdited})
        => /\ store' = store
           /\ (CallsUpdate(p) /\ loc'[p].pc # loc[p].pc)
                => (/\ loc'[p].pc = "done" /\ loc'[p].status = StatusOK
                    /\ ~loc'[p].updated /\ ~loc'[p].err)]_vars

\* a "deleted" payload got to UpdateReleases on a store that holds its tag, and left it
C2_Witness ==
    \E p \in Webhooks :
        /\ loc[p].pc = "done" /\ loc[p].valid = "true" /\ loc[p].status = StatusOK
        /\ loc[p].req.payload.action = "deleted"
        /\ ~loc[p].updated /\ ~loc[p].err
        /\ loc[p].req.payload.tag \in TagsOf(Stored)

\* C3: in the relational variant, under every interleaving of webhook calls and cold
\* reads, the table (and the open transaction's view of it) holds at most one active row
C3_AtMostOneActiveRow ==
    ~cfg.cloud =>
        /\ Cardinality(ActiveIds(rows)) <= 1
        /\ tx.open => Cardinality(ActiveIds(tx.rows)) <= 1

\* two concurrent webhook calls for different tags both committed a row
C3_Witness ==
    /\ ~cfg.cloud
    /\ \A p \in Webhooks : loc[p].pc = "done" /\ loc[p].committed
    /\ loc["w1"].req.payload.tag # loc["w2"].req.payload.tag
    /\ Len(rows) >= 3
    /\ Cardinality(ActiveIds(rows)) = 1

\* C4: in the relational variant, when two concurrent UpdateReleases calls for two
\* different tags, both new (the table started from the empty list), both return
\* updated = true after their commits, the list of the active row holds both tags
C4_NoLostUpdate ==
    (/\ ~cfg.cloud
     /\ Len(rows) >= 1 /\ rows[1].ReleaseNote = <<>>
     /\ \A p \in Webhooks : loc[p].pc = "done" /\ loc[p].updated /\ loc[p].committed
     /\ loc["w1"].req.payload.tag # loc["w2"].req.payload.tag)
    => {loc["w1"].req.payload.tag, loc["w2"].req.payload.tag} \subseteq TagsOf(Stored)

\* between its read of the cache and its write of it
InCacheSection(p) == loc[p].pc \in {"mutName", "mutBody", "writeCache"}

\* C5: in the cloud variant every write of the release cache is made holding the
\* service mutex, and no two calls are between their read and their write of the
\* cache at once
C5_CacheWritesUnderMutex ==
    cfg.cloud =>
        /\ \A p \in Procs : loc[p].pc = "writeCache" => mutex = p
        /\ \A p, q \in Procs : (InCacheSection(p) /\ InCacheSection(q)) => p = q

\* the calls of GetReleasesFromGithub a log records as failed
Failures(log) == {i \in DOMAIN log : ~log[i].status}

\* C6: GetReleasesFromGithubWithRetry makes at most three attempts, each turn of its
\* loop is one more attempt (so it ends within three turns), and after three failed
\* attempts it has returned the terminal error
C6_ThreeFailuresTerminal ==
    \A p \in Procs :
        /\ Len(loc[p].log) <= MaxAttempts
        /\ loc[p].pc = "fetch" =>
                (Len(loc[p].log) = loc[p].retryCount /\ loc[p].retryCount < MaxAttempts)
        /\ Cardinality(Failures(loc[p].log)) = MaxAttempts =>
                (loc[p].pc = "done" /\ loc[p].fetchFailed /\ loc[p].err)
        /\ loc[p].fetchFailed =>
                (Len(loc[p].log) = MaxAttempts /\ Failures(loc[p].log) = DOMAIN loc[p].log)

\* the source failed three times in a row and the call ended with the terminal error
C6_Witness ==
    \E p \in Procs :
        /\ loc[p].pc = "done" /\ loc[p].fetchFailed
        /\ Len(loc[p].log) = MaxAttempts /\ Failures(loc[p].log) = DOMAIN loc[p].log

\* C7: after the first successful attempt k of GetReleasesFromGithubWithRetry the loop
\* is left: exactly k calls were made, the first k - 1 failed, the list returned is
\* that of attempt k, and there is no error
C7_StopsAtFirstSuccess ==
    \A p \in Procs :
        loc[p].operationComplete =>
            LET k == Len(loc[p].log) IN
            /\ loc[p].pc # "fetch"
            /\ k \in 1..MaxAttempts /\ loc[p].retryCount = k
            /\ loc[p].log[k].status
            /\ Failures(loc[p].log) = 1..(k - 1)
            /\ ~loc[p].fetchFailed /\ ~loc[p].err
            /\ loc[p].pc \in {"writeCache", "lock", "respond"} => loc[p].list = loc[p].log[k].dto

\* the second attempt was the first to succeed, with a list that is not empty
C7_Witness ==
    \E p \in Procs :
        /\ loc[p].operationComplete /\ loc[p].pc # "fetch"
        /\ Len(loc[p].log) = 2 /\ ~loc[p].log[1].status /\ loc[p].log[2].status
        /\ loc[p].list = loc[p].log[2].dto /\ loc[p].list # <<>>

\* C8: in SHA-1 mode ValidateSecret answers false for every request whose signature
\* header is not "sha1=" followed by the hex HMAC-SHA1 of the body under the secret
C8_BadSignatureIsFalse ==
    [][\A p \in Webhooks :
        (/\ cfg.mode = SECRET_VALIDATOR_SHA1
         /\ loc[p].pc = "received" /\ loc'[p].pc # "received"
         /\ loc[p].req.sig # SignatureOf(loc[p].req.payload))
        => loc'[p].valid = "false"]_vars

\* C9: while a request on which ValidateSecret answers false is served, no step changes
\* the store, and the handler's step ends the call with status 401: UpdateReleases is
\* not called
C9_InvalidSignatureRejected ==
    [][\A p \in Webhooks :
        (/\ InFlight(p)
         /\ ValidateSecret(cfg.mode, loc[p].req.sig, loc[p].req.payload) = "false")
        => /\ store' = store
           /\ loc'[p].pc # loc[p].pc =>
                (/\ loc'[p].pc = "done" /\ loc'[p].valid = "false"
                 /\ loc'[p].status = StatusUnauthorized /\ ~loc'[p].updated)]_vars

\* a "published" release with a false signature was answered 401 and is not stored
C9_Witness ==
    \E p \in Webhooks :
        /\ loc[p].pc = "done" /\ loc[p].valid = "false" /\ loc[p].status = StatusUnauthorized
        /\ loc[p].req.payload.action = ActionPublished
        /\ Stored # <<>>
        /\ loc[p].req.payload.tag \notin TagsOf(Stored)

\* C10: a request with a valid signature whose event type is not "release" is ended by
\* the handler's step with status 400, and no step changes the store while it is served
C10_OtherEventRejected ==
    [][\A p \in Webhooks :
        (/\ InFlight(p)
         /\ ValidateSecret(cfg.mode, loc[p].req.sig, loc[p].req.payload) = "true"
         /\ loc[p].req.event # EventTypeRelease)
        => /\ store' = store
           /\ loc'[p].pc # loc[p].pc =>
                (loc'[p].pc = "done" /\ loc'[p].status = StatusBadRequest)]_vars

\* C11: GET /releases with offset >= 0 and size > 0, offset + size within the list,
\* answers 200 with exactly the elements [offset, offset + size) of the list, in order
C11_PageIsSlice ==
    [][\A p \in Getters :
        (/\ loc[p].pc = "respond" /\ loc'[p].pc = "done"
         /\ loc'[p].query.offset >= 0 /\ loc'[p].query.limit > 0
         /\ loc'[p].query.offset + loc'[p].query.limit <= Len(Served(p)))
        => /\ loc'[p].status = StatusOK
           /\ loc'[p].resp =
                Slice(Served(p), loc'[p].query.offset,
                      loc'[p].query.offset + loc'[p].query.limit)]_vars

\* C12: GET /releases with size > 0 and an offset greater than the length of the list
\* answers 200 with an empty list
C12_OffsetBeyondIsEmpty ==
    [][\A p \in Getters :
        (/\ loc[p].pc = "respond" /\ loc'[p].pc = "done"
         /\ loc'[p].query.limit > 0
         /\ loc'[p].query.offset > Len(Served(p)))
        => (loc'[p].status = StatusOK /\ loc'[p].resp = <<>>)]_vars

\* the positions of the marker in a body
MarkersOf(body) == {i \in DOMAIN body : body[i] = PrerequisitesMatcher}

\* the text between the first and the last marker of a body, without markers
BetweenMarkers(body) ==
    LET first == Min(MarkersOf(body))
        last == Max(MarkersOf(body))
    IN  SelectSeq([i \in 1..(last - first - 1) |-> body[first + i]],
                  LAMBDA t : t # PrerequisitesMatcher)

\* C13: every release fetched whose body holds the marker at least twice has
\* prerequisite = true and, as prerequisiteMessage, the text between the first and the
\* last marker with the marker text removed
C13_PrerequisiteBetweenMarkers ==
    \A p \in Getters : \A i \in DOMAIN loc[p].list :
        (/\ loc[p].pc \in {"lock", "dbBegin", "dbSwap", "dbCommit", "respond"}
         /\ i \in DOMAIN github
         /\ Cardinality(MarkersOf(github[i].Body)) >= 2)
        => /\ loc[p].list[i].Body = github[i].Body
           /\ loc[p].list[i].Prerequisite
           /\ loc[p].list[i].PrerequisiteMessage = BetweenMarkers(github[i].Body)

\* a body with three markers and text between the first and the last was fetched
C13_Witness ==
    \E p \in Getters :
        /\ loc[p].pc = "respond" /\ Len(loc[p].list) = 1
        /\ Cardinality(MarkersOf(loc[p].list[1].Body)) = 3
        /\ loc[p].list[1].Prerequisite
        /\ loc[p].list[1].PrerequisiteMessage = <<"a">>

KnownModes ==
    {SECRET_VALIDATOR_SHA1, SECRET_VALIDATOR_URL_APPEND, SECRET_VALIDATOR_PLAIN_TEXT}

\* C14: when the validator mode is none of SHA-1, URL_APPEND and PLAIN_TEXT, every
\* webhook request is answered by ValidateSecret with false: it ends with 401 and
\* never gets to UpdateReleases
C14_UnknownModeFailsClosed ==
    cfg.mode \notin KnownModes =>
        \A p \in Webhooks :
            /\ loc[p].pc \in {"idle", "received", "done"}
            /\ loc[p].pc = "done" =>
                (/\ loc[p].valid = "false" /\ loc[p].status = StatusUnauthorized
                 /\ ~loc[p].updated /\ ~loc[p].committed)

\* in an unknown mode two "published" deliveries were turned away
C14_Witness ==
    /\ cfg.mode \notin KnownModes
    /\ \A p \in Webhooks :
        /\ loc[p].pc = "done" /\ loc[p].valid = "false" /\ loc[p].status = StatusUnauthorized
        /\ loc[p].req.payload.action = ActionPublished

\* C15: in URL_APPEND mode ValidateSecret answers true for a request whose callback URL
\* ends with the configured secret, and false for any other
C15_UrlAppendAcceptsSecret ==
    [][\A p \in Webhooks :
        (/\ cfg.mode = SECRET_VALIDATOR_URL_APPEND
         /\ loc[p].pc = "received" /\ loc'[p].pc # "received")
        => (loc'[p].valid = "true" <=> loc[p].req.url = Secret)]_vars

\* C16: cloud variant: when the marker read from blob storage equals the tag of the
\* first element of the cache, GetReleases goes on to return the cached list without a
\* call to the external source, and neither that step nor the response changes the
\* cache or the marker; the response is the list returned
C16_FreshServesCache ==
    [][\A p \in Getters :
        cfg.cloud =>
            /\ (loc[p].pc = "compare" /\ tagNameFromCache = loc[p].latest)
                => /\ loc'[p].pc = "respond"
                   /\ loc'[p].ptrs = Cached
                   /\ loc'[p].log = <<>> /\ loc'[p].retryCount = 0
                   /\ store' = store
            /\ loc[p].pc = "respond"
                => /\ store' = store
                   /\ loc'[p].pc = "done" =>
                        (loc'[p].resp = Served(p) /\ loc'[p].status = StatusOK)]_vars

\* a GET was answered with the cached list with nothing fetched by it
C16_Witness ==
    /\ cfg.cloud
    /\ \E p \in Getters :
        /\ loc[p].pc = "done" /\ loc[p].status = StatusOK
        /\ loc[p].resp # <<>> /\ loc[p].resp = Deref(Cached)
        /\ blob = loc[p].resp[1].TagName
        /\ \A o \in DOMAIN heap : o[1] # p

\* the call fetched a list that is not empty: it made the DTOs of it
FetchedBy(p) == \E o \in DOMAIN heap : o[1] = p

\* C17: cloud variant: when the marker read from blob storage differs from the tag of
\* the first element of the cache, or the cache is empty, GetReleases goes on to the
\* fetch with retry; and when a GET that fetched a list (not empty) is answered 200, the
\* cache holds exactly the fetched list, the blob marker is the tag of its first
\* element, and the response is (the page of) the fetched list
C17_StaleRefetches ==
    /\ [][\A p \in Getters :
            (cfg.cloud /\ loc[p].pc = "compare" /\ tagNameFromCache # loc[p].latest)
            => (loc'[p].pc = "fetch" /\ store' = store)]_vars
    /\ [](\A p \in Getters :
            (cfg.cloud /\ loc[p].pc = "done" /\ loc[p].status = StatusOK /\ FetchedBy(p))
            => LET fetched == GetReleasesFromGithub(github) IN
               /\ Deref(Cached) = fetched
               /\ blob = fetched[1].TagName
               /\ loc[p].resp =
                    Paginate(fetched, loc[p].query.offset, loc[p].query.limit).page)

\* a GET on an empty cache, with the marker an earlier run left, fetched three releases
C17_Witness ==
    /\ cfg.cloud
    /\ loc["init"].pc = "idle"
    /\ \E p \in Getters :
        /\ loc[p].pc = "done" /\ loc[p].status = StatusOK /\ FetchedBy(p)
        /\ loc[p].query = NoQuery
        /\ Len(loc[p].resp) = MaxLen /\ loc[p].resp = Deref(Cached)
        /\ blob = loc[p].resp[1].TagName /\ blob # OldMarker

\* the upload of the marker by p succeeded and its operation goes on or returns success
UploadSucceeds(p) ==
    /\ loc[p].pc = "upload"
    /\ IF p \in Webhooks THEN loc'[p].pc = "done" /\ loc'[p].updated
       ELSE IF p \in Getters THEN loc'[p].pc = "respond"
       ELSE loc'[p].pc = "done" /\ ~loc'[p].err

\* C18: cloud variant: when an UpdateReleases, a refreshing GetReleases or a
\* GetReleasesOnInitialisation succeeds, the blob marker holds the tag of the first
\* element of the cached list
C18_MarkerIsNewestTag ==
    [][\A p \in Procs :
        (cfg.cloud /\ UploadSucceeds(p))
        => (Cached' # <<>> /\ blob' = Deref(Cached)'[1].TagName)]_vars

\* the list of the active row, <<>> when no row is active
ActiveList == IF FindActive(rows) = 0 THEN <<>> ELSE rows[FindActive(rows)].ReleaseNote

\* p enters GetReleases
Enters(p) == loc[p].pc = "idle" /\ loc'[p].pc # "idle"

\* C19: relational variant, read path: with an active row holding a non-empty list,
\* GetReleases returns that list, calls no external source and writes no row; with no
\* active row it fetches with retry, and a fetched list that was committed is the
\* new active row and the list returned
C19_RelationalRead ==
    /\ [][\A p \in Getters :
            /\ (~cfg.cloud /\ Enters(p) /\ ActiveList # <<>>)
               => /\ store' = store
                  /\ loc'[p].log = <<>>
                  /\ \/ loc'[p].pc = "respond" /\ loc'[p].list = ActiveList
                     \/ loc'[p].pc = "done" /\ loc'[p].err
            /\ (~cfg.cloud /\ loc[p].pc = "respond" /\ ~loc[p].committed
                           /\ loc[p].list = ActiveList)
               => /\ store' = store
                  /\ loc'[p].pc = "done"
                  /\ loc'[p].status = StatusOK
                     => loc'[p].resp = Paginate(ActiveList, loc'[p].query.offset,
                                                loc'[p].query.limit).page
            /\ (~cfg.cloud /\ Enters(p) /\ FindActive(rows) = 0)
               => /\ store' = store
                  /\ \/ loc'[p].pc = "fetch"
                     \/ loc'[p].pc = "done" /\ loc'[p].err
            /\ (~cfg.cloud /\ loc[p].pc = "fetch" /\ loc'[p].pc # "fetch")
               => /\ store' = store
                  /\ \/ /\ loc'[p].pc = "lock"
                        /\ loc'[p].log[Len(loc'[p].log)].status
                        /\ loc'[p].list = GetReleasesFromGithub(github)
                     \/ /\ loc'[p].pc = "done" /\ loc'[p].err
                        /\ Len(loc'[p].log) = MaxAttempts]_vars
    /\ [](\A p \in Getters :
            (~cfg.cloud /\ loc[p].pc = "done" /\ loc[p].committed)
            => /\ ActiveList = GetReleasesFromGithub(github)
               /\ Cardinality(ActiveIds(rows)) = 1
               /\ loc[p].status = StatusOK
                  => loc[p].resp = Paginate(ActiveList, loc[p].query.offset,
                                            loc[p].query.limit).page)

\* a GET answered from the active row an earlier run left, while the external source
\* holds three releases
C19_Witness ==
    /\ ~cfg.cloud
    /\ Len(github) = MaxLen
    /\ \E p \in Getters :
        /\ loc[p].pc = "done" /\ loc[p].status = StatusOK /\ ~loc[p].committed
        /\ loc[p].query = NoQuery
        /\ loc[p].resp = <<FirstRelease>> /\ loc[p].resp = ActiveList
        /\ Len(rows) = 1

\* p is inside updateReleaseNotesInDb
InUpdate(p) == loc[p].pc \in {"dbBegin", "dbSwap", "dbCommit"}

\* the step of p ends updateReleaseNotesInDb with an error
UpdateFails(p) == InUpdate(p) /\ ~InUpdate(p)' /\ loc'[p].committed = loc[p].committed

\* C20: relational variant: a step of updateReleaseNotesInDb that fails (begin, the
\* read of the active row, the update of the old row, the insert, the commit) leaves
\* the table as it was before the call, with no transaction open; a table with rows
\* always has an active row
C20_WriteAllOrNothing ==
    /\ [][\A p \in Procs :
            /\ (~cfg.cloud /\ UpdateFails(p)) => (rows' = rows /\ tx' = NoTx)
            /\ (~cfg.cloud /\ InUpdate(p) /\ InUpdate(p)') => rows' = rows]_vars
    /\ [](~cfg.cloud => (rows = <<>> \/ ActiveIds(rows) # {}))

\* the insert of a webhook call failed after the old row was marked in the
\* transaction, and the table still has its one row, active
C20_Witness ==
    /\ ~cfg.cloud
    /\ tx = NoTx
    /\ Len(rows) = 1 /\ rows[1].IsActive
    /\ \E p \in Webhooks :
        /\ loc[p].pc = "done" /\ ~loc[p].committed /\ loc[p].updated
        /\ \A q \in Webhooks : ~loc[q].committed

\* the step of p ends UpdateReleases after a write to the blob storage that failed
UploadFails(p) ==
    /\ loc[p].pc \in {"writeFile", "upload"}
    /\ loc'[p].pc = "done"
    /\ loc[p].pc = "upload" => blob' # tmpFile

\* C21: a persistence error during UpdateReleases is surfaced: when the transaction
\* (relational) or the upload of the marker (cloud) fails, UpdateReleases returns an
\* error and does not report updated = true
C21_PersistenceErrorSurfaced ==
    [][\A p \in Webhooks :
        ((~cfg.cloud /\ UpdateFails(p)) \/ (cfg.cloud /\ UploadFails(p)))
        => (loc'[p].err /\ ~loc'[p].updated)]_vars

\* GetReleasesOnInitialisation returned after a fetch that succeeded with a list
\* that is not empty, and after an upload that succeeded
Seeded(p) == loc[p].pc = "done" /\ FetchedBy(p) /\ ~loc[p].err

\* C22: GetReleasesOnInitialisation seeds the store of the configured variant: after
\* a successful fetch of a list that is not empty, the cloud cache holds the fetched
\* list with the marker at its first tag, and the relational table has an active row
\* holding the fetched list
C22_InitSeedsStore ==
    \A p \in Inits :
        Seeded(p)
        => LET fetched == GetReleasesFromGithub(github) IN
           IF cfg.cloud
           THEN Deref(Cached) = fetched /\ blob = fetched[1].TagName
           ELSE ActiveList = fetched

\* GetReleasesOnInitialisation met an error: three failed fetches or a failed upload
InitFailed(p) == loc[p].err

\* the step of p is the return of GetReleasesOnInitialisation after an error
InitFails(p) == loc[p].pc \in {"fetch", "writeFile", "upload"} /\ InitFailed(p)'

\* an HTTP answer was written for the call of q
Answered(q) ==
    /\ loc[q].pc = "done"
    /\ loc[q].status \in {StatusOK, StatusBadRequest, StatusUnauthorized,
                          StatusInternalServerError}

\* C23: a failed background initialisation never propagates: the failing step changes
\* no store and no local of a request, three failed fetches leave nothing written by
\* the initialisation, the goroutine ends holding neither the mutex nor a
\* transaction, and every call in flight after the failure is answered
C23_InitFailureContained ==
    /\ [][\A p \in Inits :
            /\ loc'[p] # loc[p] => \A q \in Procs \ {p} : loc'[q] = loc[q]
            /\ InitFails(p) => (store' = store /\ loc'[p].pc = "done")]_vars
    /\ [](\A p \in Inits :
            /\ InitFailed(p) => (loc[p].pc = "done" /\ mutex # p)
            /\ loc[p].fetchFailed => ~FetchedBy(p))
    /\ \A p \in Inits : \A q \in Webhooks \cup Getters :
            (InitFailed(p) /\ InFlight(q)) ~> Answered(q)

\* after an initialisation whose three fetches failed, a webhook call was answered
\* with updated = true and a GET was answered with the list
C23_Witness ==
    /\ cfg.cloud
    /\ \E p \in Inits : InitFailed(p) /\ loc[p].fetchFailed
    /\ \E q \in Webhooks : Answered(q) /\ loc[q].updated /\ loc[q].status = StatusOK
    /\ \E q \in Getters : Answered(q) /\ loc[q].status = StatusOK /\ loc[q].resp # <<>>

\* the webhook handler is about to read a signed delivery whose body is malformed
Malformed(p) ==
    /\ loc[p].pc = "received"
    /\ loc[p].req.payload.form # WellFormed
    /\ ValidateSecret(cfg.mode, loc[p].req.sig, loc[p].req.payload) = "true"
    /\ ~EventRejected(loc[p].req.event)

\* C24: a malformed webhook payload is answered at once with a 4xx status, without
\* retry, and the release store is unchanged
C24_MalformedIsBadRequest ==
    [][\A p \in Webhooks :
        (Malformed(p) /\ loc'[p] # loc[p])
        => /\ loc'[p].pc = "done"
           /\ loc'[p].status = StatusBadRequest
           /\ store' = store]_vars

\* the step of p replaces the stored list: the write of the cache, or the commit
Stores(p) ==
    \/ cfg.cloud /\ loc[p].pc = "writeCache" /\ loc'[p].pc # "writeCache"
    \/ ~cfg.cloud /\ loc[p].pc = "dbCommit" /\ loc'[p].committed

\* C25: UpdateReleases with a tag name not in the current list prepends the release:
\* the stored list afterwards is the release followed by the previous list
C25_NewTagPrepended ==
    [][\A p \in Webhooks :
        (Stores(p) /\ loc[p].info.TagName \notin TagsOf(Stored))
        => /\ Stored' = <<loc[p].info>> \o Stored
           /\ Len(Stored') = Len(Stored) + 1]_vars

\* a webhook release with a new tag is the first of two stored entries
C25_Witness ==
    \E p \in Webhooks :
        /\ loc[p].pc = "done" /\ loc[p].updated
        /\ ~cfg.cloud => loc[p].committed
        /\ Len(Stored) = 2
        /\ Stored[1].TagName = loc[p].req.payload.tag
        /\ Stored[1].ReleaseName = NameOf(p)
        /\ Stored[2].TagName # Stored[1].TagName
        /\ Stored[2].ReleaseName # NameOf(p)

\* an entry with the release name of a webhook event and a body that is not its body
HalfUpdated(e) == \E p \in Webhooks : e.ReleaseName = NameOf(p) /\ e.Body # BodyOf(p)

\* C26: a reader running concurrently with UpdateReleases never observes an entry in
\* a half-updated state: no list a GET answers with holds the release name of an
\* event together with the body of the entry before it
C26_NoHalfUpdatedEntry ==
    [][\A p \in Getters :
        (loc[p].pc = "respond" /\ loc'[p].pc = "done" /\ loc'[p].status = StatusOK)
        => \A i \in DOMAIN loc'[p].resp : ~HalfUpdated(loc'[p].resp[i])]_vars

\* the cache holds an entry with the release name of the event of p; with one call
\* at a time the name enters the cache no earlier than the call of p
CacheHasEventOf(p) == \E i \in DOMAIN Deref(Cached) : Deref(Cached)[i].ReleaseName = NameOf(p)

\* C27: cloud variant: when the upload of the marker in UpdateReleases fails and the
\* error is returned, the cache is as it was before the call: it holds nothing of
\* the event of the call
C27_FailedUploadLeavesCache ==
    [][\A p \in Webhooks :
        (cfg.cloud /\ UploadFails(p) /\ loc'[p].err)
        => ~CacheHasEventOf(p)']_vars

\* the step of p is the commit of updateReleaseNotesInDb that succeeds
Commits(p) == ~cfg.cloud /\ loc[p].pc = "dbCommit" /\ loc'[p].committed

\* C28: relational variant: records are superseded, never deleted: a successful
\* updateReleaseNotesInDb adds exactly one row, keeps every earlier row with its id
\* and its list, leaves the new row the only active one and the row that was active
\* inactive; the number of rows never decreases
C28_SupersededNotDeleted ==
    [][/\ Len(rows') >= Len(rows)
       /\ \A p \in Procs :
            Commits(p)
            => /\ Len(rows') = Len(rows) + 1
               /\ \A i \in DOMAIN rows :
                    /\ rows'[i].Id = rows[i].Id
                    /\ rows'[i].ReleaseNote = rows[i].ReleaseNote
                    /\ ~rows'[i].IsActive
               /\ rows'[Len(rows')].IsActive
               /\ rows'[Len(rows')].ReleaseNote = loc[p].list
               /\ rows'[Len(rows')].Id \notin {rows[i].Id : i \in DOMAIN rows}]_vars

\* a webhook call committed after a cold read: the row of the read is inactive with
\* the list it had, the row of the webhook call is active
C28_Witness ==
    /\ ~cfg.cloud
    /\ Len(rows) = 2
    /\ ~rows[1].IsActive /\ rows[2].IsActive
    /\ rows[1].ReleaseNote = <<FirstRelease>>
    /\ Len(rows[2].ReleaseNote) = 2
    /\ \E p \in Webhooks : loc[p].pc = "done" /\ loc[p].committed
    /\ \E p \in Getters : loc[p].pc = "done" /\ loc[p].committed

\* p is in GetReleases before any write: the reads and the fetch
Reading(p) == loc[p].pc \in {"idle", "readFile", "compare", "fetch"}

\* the step of p is the third failed attempt of a fetch
ThirdFailure(p) ==
    /\ loc[p].pc = "fetch"
    /\ Len(loc'[p].log) = MaxAttempts
    /\ Failures(loc'[p].log) = DOMAIN loc'[p].log

\* C29: when GetReleases needs a refetch and the external source fails on all three
\* attempts, GetReleases returns the terminal error, its steps up to there leave the
\* cache, the marker and the rows unchanged, and the handler answers with status 500
C29_FetchFailureSurfaced ==
    [][\A p \in Getters :
        /\ (Reading(p) /\ loc'[p] # loc[p])
           => (releaseCache' = releaseCache /\ Deref(Cached)' = Deref(Cached)
               /\ blob' = blob /\ rows' = rows)
        /\ ThirdFailure(p)
           => /\ loc'[p].pc = "done"
              /\ loc'[p].err /\ loc'[p].fetchFailed
              /\ loc'[p].status = StatusInternalServerError]_vars

\* a GET ended with status 500 after three failed attempts while the other calls
\* stored nothing
C29_Witness ==
    /\ \E p \in Getters :
        /\ loc[p].pc = "done" /\ loc[p].fetchFailed /\ loc[p].err
        /\ loc[p].status = StatusInternalServerError
        /\ Len(loc[p].log) = MaxAttempts /\ Failures(loc[p].log) = DOMAIN loc[p].log
    /\ Stored = <<>>

\* the step of p is a call of GetReleasesFromGithub
Calls(p) == loc[p].pc = "fetch" /\ Len(loc'[p].log) = Len(loc[p].log) + 1

\* C30: GetReleasesFromGithub returns an empty list with success = false for every
\* error of the external call, a 404 or another; a 404 is retried like any failure,
\* and three of them in a row give the terminal error
C30_NotFoundIsFailure ==
    [][\A p \in Getters \cup Inits :
        Calls(p)
        => LET log == loc'[p].log
               last == log[Len(log)]
           IN  /\ last.err # NoError => (last.dto = <<>> /\ ~last.status)
               /\ (last.err = NotFound /\ Len(log) < MaxAttempts) => loc'[p].pc = "fetch"
               /\ (Len(log) = MaxAttempts /\ \A i \in DOMAIN log : log[i].err = NotFound)
                  => (loc'[p].pc = "done" /\ loc'[p].err /\ loc'[p].fetchFailed)]_vars

\* three answers 404 in a row ended a GET with the terminal error
C30_Witness ==
    \E p \in Getters :
        /\ loc[p].pc = "done" /\ loc[p].fetchFailed
        /\ loc[p].status = StatusInternalServerError
        /\ Len(loc[p].log) = MaxAttempts
        /\ \A i \in DOMAIN loc[p].log : loc[p].log[i].err = NotFound

\* the handler is about to read a signed release event, published, with a timestamp
\* that does not parse
Unparsable(p) ==
    /\ loc[p].pc = "received"
    /\ loc[p].req \in UnparsableRequests(p)

\* the release UpdateReleases builds from a payload whose timestamps parse or not
ReleaseOf(pl) ==
    getPrerequisiteContent(
        ReleaseAt(pl.tag, pl.name, pl.body,
                  IF pl.created = GoodStamp THEN ParseTime(GoodStamp).time ELSE ZeroTime,
                  IF pl.published = GoodStamp THEN ParseTime(GoodStamp).time ELSE ZeroTime))

\* p is past the parse of a release event with a timestamp that does not parse
HasZeroTime(p) ==
    /\ p \in Webhooks /\ InFlight(p) /\ loc[p].pc # "received"
    /\ ZeroTime \in {loc[p].info.CreatedAt, loc[p].info.PublishedAt}

\* C31: a created_at or published_at that does not parse is not fatal: the handler
\* goes on to the store as for a timestamp that parses, with the field at its zero
\* value; the release is merged and stored with it, and the call returns
\* updated = true, or the error of an upload that failed
C31_UnparsableTimeNotFatal ==
    [][\A p \in Webhooks :
        /\ Unparsable(p) /\ loc'[p] # loc[p]
           => LET pl == loc[p].req.payload
                  good == [pl EXCEPT !.created = GoodStamp, !.published = GoodStamp]
                  asGood == Handle([loc[p] EXCEPT !.req.payload = good,
                                                  !.req.sig = SignatureOf(good)],
                                   cfg.mode, cfg.cloud)
              IN  /\ loc'[p].info = ReleaseOf(pl)
                  /\ ZeroTime \in {loc'[p].info.CreatedAt, loc'[p].info.PublishedAt}
                  /\ loc'[p].pc = asGood.pc
                  /\ loc'[p].pc \in {"readCache", "findActive"}
        /\ (HasZeroTime(p) /\ Stores(p) /\ loc[p].info.TagName \notin TagsOf(Stored))
           => Stored' = <<loc[p].info>> \o Stored
        /\ (HasZeroTime(p) /\ loc'[p].pc = "done" /\ loc[p].pc \in {"upload", "dbCommit"})
           => \/ loc'[p].updated /\ ~loc'[p].err /\ loc'[p].status = StatusOK
              \/ cfg.cloud /\ blob' = blob /\ ~loc'[p].updated /\ loc'[p].err]_vars

\* a release whose created_at did not parse is the first stored entry, with the zero
\* time, after a call that returned updated = true
C31_Witness ==
    \E p \in Webhooks :
        /\ loc[p].pc = "done" /\ loc[p].updated /\ loc[p].status = StatusOK
        /\ ~cfg.cloud => loc[p].committed
        /\ Stored # <<>>
        /\ Stored[1].TagName = loc[p].req.payload.tag
        /\ Stored[1].ReleaseName = NameOf(p)
        /\ Stored[1].CreatedAt = ZeroTime
        /\ Stored[1].PublishedAt # ZeroTime

\* C32: when the marker does not occur twice in a release body no message is set:
\* with one occurrence, at any position, prerequisiteMessage stays empty; with none,
\* prerequisite stays false and prerequisiteMessage stays empty
C32_NoMessageWithoutTwoMarkers ==
    \A p \in Getters : \A i \in DOMAIN loc[p].list :
        (/\ loc[p].pc \in {"lock", "dbBegin", "dbSwap", "dbCommit", "respond"}
         /\ i \in DOMAIN github
         /\ Cardinality(MarkersOf(github[i].Body)) < 2)
        => /\ loc[p].list[i].Body = github[i].Body
           /\ loc[p].list[i].PrerequisiteMessage = <<>>
           /\ MarkersOf(github[i].Body) = {} => ~loc[p].list[i].Prerequisite

\* a body with one marker, not at its start and with text after it, was fetched
C32_Witness ==
    \E p \in Getters :
        /\ loc[p].pc = "respond" /\ Len(loc[p].list) = 1
        /\ MarkersOf(loc[p].list[1].Body) = {2}
        /\ Len(loc[p].list[1].Body) = 3
        /\ loc[p].list[1].Prerequisite
        /\ loc[p].list[1].PrerequisiteMessage = <<>>

\* no two entries of a list have the same tag name
UniqueTags(list) == Cardinality(TagsOf(list)) = Len(list)

\* C33: tag names identify releases in the store: under every interleaving of
\* UpdateReleases calls, published or edited, for the same or different tags, with
\* reads and the initialisation, no two entries of the stored list have the same tag
C33_TagsUnique ==
    /\ UniqueTags(Stored)
    /\ \A i \in DOMAIN rows : UniqueTags(rows[i].ReleaseNote)

\* two webhook calls for one tag, and a list of two entries stored
C33_Witness ==
    /\ \A p \in Webhooks : loc[p].pc = "done" /\ loc[p].updated
    /\ loc["w1"].req.payload.tag = loc["w2"].req.payload.tag
    /\ loc["w1"].req.payload.tag \in TagsOf(Stored)
    /\ Len(Stored) = 2

\* p is in UpdateReleases with a release whose tag the stored list holds
UpdatesKnownTag(p) ==
    /\ InFlight(p) /\ loc[p].pc # "received"
    /\ loc[p].info.TagName \in TagsOf(Stored)

\* C34: UpdateReleases for a tag name already in the list updates in place: no step
\* of the call changes the length of the stored list, the tag at any position, or
\* any field of an entry with another tag
C34_KnownTagInPlace ==
    [][\A p \in Webhooks :
        UpdatesKnownTag(p)
        => /\ Len(Stored') = Len(Stored)
           /\ \A i \in DOMAIN Stored :
                /\ Stored'[i].TagName = Stored[i].TagName
                /\ Stored[i].TagName # loc[p].info.TagName => Stored'[i] = Stored[i]]_vars

\* an edited event for the second of two stored entries: the entry has the name of
\* the event and is still second, the first entry is not of this event
C34_Witness ==
    \E p \in Webhooks :
        /\ loc[p].pc = "done" /\ loc[p].updated
        /\ ~cfg.cloud => loc[p].committed
        /\ loc[p].req.payload.action = ActionEdited
        /\ Len(Stored) = 2
        /\ Stored[2].TagName = loc[p].req.payload.tag
        /\ Stored[2].ReleaseName = NameOf(p) /\ Stored[2].Body = BodyOf(p)
        /\ Stored[1].ReleaseName # NameOf(p)

\* prerequisite and prerequisiteMessage of an entry are those of its body
Agrees(e) ==
    /\ e.Prerequisite <=> MarkersOf(e.Body) # {}
    /\ e.PrerequisiteMessage =
         IF Cardinality(MarkersOf(e.Body)) >= 2 THEN BetweenMarkers(e.Body) ELSE <<>>

\* C35: for every release held in the store, prerequisite and prerequisiteMessage
\* agree with the stored body, after any sequence of UpdateReleases calls, an edited
\* event that replaces the body of an existing tag included
C35_PrerequisiteAgreesWithBody ==
    Quiet => \A i \in DOMAIN Stored : Agrees(Stored[i])

\* UpdateReleases returned updated = true for the published release of w, no other
\* webhook call was made, no call is in flight and no GET has started
Accepted(w) ==
    /\ loc[w].pc = "done" /\ loc[w].updated
    /\ loc[w].req.payload.action = ActionPublished
    /\ \A q \in Webhooks \ {w} : loc[q].pc = "idle"
    /\ \A q \in Getters : loc[q].pc = "idle"
    /\ \A q \in Inits : loc[q].pc \in {"idle", "done"}

\* C36: cloud variant: a release accepted by a webhook is not lost: once
\* UpdateReleases returned updated = true for tag T, with the initialisation
\* interleaved in any way, a cache that the next GET will serve (its first tag is the
\* marker) contains T
C36_AcceptedReleaseKept ==
    \A w \in Webhooks :
        (cfg.cloud /\ Accepted(w) /\ Fresh(tagNameFromCache, blob))
        => loc[w].req.payload.tag \in TagsOf(Deref(Cached))

\* the GET of p refetched a list that is not empty and was answered 200: the upload
\* of the marker succeeded
Refreshed(p) ==
    /\ loc[p].pc = "done" /\ loc[p].status = StatusOK /\ FetchedBy(p)

\* C37: cloud variant: after a GetReleases that refetched a list that is not empty
\* and uploaded the marker, the marker is the tag of the first release of the cache,
\* and a following GetReleases finds them equal at its comparison, goes on to serve
\* the cache, makes no call to the external source, leaves cache and marker alone and
\* is answered 200 with (the page of) the cache
C37_CacheConvergesAfterRefresh ==
    /\ [](\A p \in Getters :
            (cfg.cloud /\ Refreshed(p)) => Fresh(tagNameFromCache, blob))
    /\ [][\A p \in Getters : \A q \in Getters \ {p} :
            (cfg.cloud /\ Refreshed(p))
            => /\ loc'[q].log = <<>> /\ loc'[q].retryCount = 0
               /\ loc'[q].pc # "fetch"
               /\ heap' = heap /\ releaseCache' = releaseCache /\ blob' = blob
               /\ loc[q].pc = "compare"
                  => (loc'[q].pc = "respond" /\ loc'[q].ptrs = Cached)
               /\ loc[q].pc = "respond"
                  => /\ loc'[q].pc = "done"
                     /\ loc'[q].status = StatusOK
                        => loc'[q].resp = Paginate(Deref(Cached), loc'[q].query.offset,
                                                   loc'[q].query.limit).page]_vars

\* g1 refetched three releases and uploaded the marker; g2, after it, was served the
\* three releases of the cache without a call to the external source
C37_Witness ==
    /\ cfg.cloud
    /\ Refreshed("g1")
    /\ loc["g2"].pc = "done" /\ loc["g2"].status = StatusOK
    /\ loc["g2"].log = <<>> /\ ~FetchedBy("g2")
    /\ loc["g2"].query = NoQuery
    /\ Len(loc["g2"].resp) = MaxLen /\ loc["g2"].resp = Deref(Cached)

\* C38: relational variant: an UpdateReleases call that reads the active row while
\* no row is active returns an error with updated = false, and no step of a webhook
\* call made while no row is active changes the table: a row is created by the cold
\* read of GetReleases (or the initialisation) only
C38_WebhookNeedsActiveRow ==
    [][\A w \in Webhooks :
        (~cfg.cloud /\ ActiveIds(rows) = {} /\ loc'[w] # loc[w])
        => /\ rows' = rows
           /\ loc[w].pc = "findActive"
              => /\ loc'[w].pc = "done"
                 /\ loc'[w].err /\ ~loc'[w].updated
                 /\ loc'[w].status = StatusInternalServerError]_vars

\* a published release was refused with an error while the table was empty
C38_Witness ==
    /\ ~cfg.cloud
    /\ rows = <<>>
    /\ \E w \in Webhooks :
        /\ loc[w].pc = "done" /\ loc[w].err /\ ~loc[w].updated
        /\ loc[w].status = StatusInternalServerError
        /\ loc[w].req.payload.action = ActionPublished
        /\ loc[w].req.payload.tag \in Tags

\* C39: every response of GetReleases and ReleaseWebhookHandler with status 200
\* carries a result and no errors, and every response with status 400, 401 or 500
\* carries a list of errors that is not empty and no result
C39_UniformEnvelope ==
    LET ErrorStatuses ==
            {StatusBadRequest, StatusUnauthorized, StatusInternalServerError}
    IN  \A p \in Webhooks \cup Getters :
            (loc[p].pc = "done" /\ loc[p].status \in {StatusOK} \cup ErrorStatuses)
            => /\ Envelope(p).code = StatusOK
                  => (Envelope(p).result # Nil /\ Envelope(p).errors = <<>>)
               /\ Envelope(p).code \in ErrorStatuses
                  => (Envelope(p).errors # <<>> /\ Envelope(p).result = Nil)

====
